---- MODULE Spec2Model ----
(***************************************************************************)
(* torch.package PackageExporter (src/torch/package/package_exporter.py):  *)
(* the dependency graph, the pattern table, the disposition tables, the    *)
(* storage table and the archive records, driven by the public operations. *)
(*                                                                         *)
(* A module name is the sequence of its dot-separated segments:            *)
(* "lib.x" is <<"lib", "x">>.  An archive path is the sequence of its      *)
(* slash-separated components: "lib/x.py" is <<"lib", "x.py">>.            *)
(* An optional value (Python None or a value) is <<>> or <<value>>.        *)
(***************************************************************************)
EXTENDS Integers, Sequences, FiniteSets, TLC

VARIABLES
    zip_open,             \* self.zip_file exists (the writer is not finalised)
    buffer_flushed,       \* self.buffer.flush() was called
    records,              \* what the writer received: <<[path, data]>>
    serialized_storages,  \* self.serialized_storages: the keys, in insertion order
    intern_modules,       \* self.intern_modules (insertion-ordered keys)
    extern_modules,       \* self.extern_modules
    mock_modules,         \* self.mock_modules
    dependency_graph,     \* self.dependency_graph: [nodes, attrs, edges]
    patterns,             \* self.patterns: <<[glob, action, allow_empty]>>
    matched_patterns,     \* self.matched_patterns
    fault,                \* what the last call raised to its caller ("none": it returned)
    last,                 \* the last call: [op, name, recs, args, visits]: recs is
                          \* Len(records) before it, args its arguments, visits the
                          \* names _save_module ran for during it, in order
    calls,                \* number of save_* and rule calls made so far
    late,                 \* how many of them came after a close() or an __exit__
    seals,                \* number of close() runs so far
    exited,               \* the resource scope (with-block) was left
    phase,                \* "open"; "sealed": close() returned; "faulted": close()
                          \* raised; "aborted": __exit__ finalised after a body fault
    entered,              \* what the user entered directly: {[op, name]}
    scanned,              \* the dependency scans run so far: {[name, deps]}
    enq_failed,           \* some save_* call raised
    cdata,                \* obj._cdata of every storage object: its address in this run
    scan_pairs,           \* dep_pairs: the list find_files_source_depends_on returned
                          \* to _get_dependencies when it is run on its own
    scan_deps             \* <<>>, or <<the list _get_dependencies returned for it>>

vars == <<zip_open, buffer_flushed, records, serialized_storages, intern_modules,
          extern_modules, mock_modules, dependency_graph, patterns,
          matched_patterns, fault, last, calls, late, seals, exited, phase,
          entered, scanned, enq_failed, cdata, scan_pairs, scan_deps>>

(***************************************************************************)
(* Bounds of the model.                                                    *)
(***************************************************************************)
MaxCalls == 3
MaxSeals == 1
MaxLate == 1
MaxPairs == 3

(***************************************************************************)
(* Sequences helpers.                                                      *)
(***************************************************************************)
Range(s) == {s[i] : i \in 1..Len(s)}

Contains(s, x) == \E i \in 1..Len(s) : s[i] = x

\* dict[key] = True on an insertion-ordered dict used as a set of keys
DictAdd(s, x) == IF Contains(s, x) THEN s ELSE Append(s, x)

(***************************************************************************)
(* Names of the modelled world.                                            *)
(***************************************************************************)
MangledPrefix == "<torch_package_0>"

NameA == <<"a">>
NameB == <<"b">>
NameC == <<"c">>
NameD == <<"d">>
NameLib == <<"lib">>
NameLibX == <<"lib", "x">>
NameLibW == <<"lib", "w">>
NameSys == <<"sys">>
NameOs == <<"os">>
NameOsPath == <<"os", "path">>
NameTorch == <<"torch">>
NameTorchNn == <<"torch", "nn">>
NameGhost == <<"ghost">>
NameMangled == <<MangledPrefix, "m">>
NamePkg == <<"pkg">>

\* _mangling.is_mangled: the name starts with the reserved prefix
is_mangled(name) == name # <<>> /\ Head(name) = MangledPrefix

\* _stdlib.is_stdlib_module over the roots of the modelled world
is_stdlib_module(root) == root \in {"sys", "io", "os", "collections"}

_DISALLOWED_MODULES == {"sys", "io"}

\* module_name.partition(".")[0]
Root(name) == Head(name)

_can_implicitly_extern_noDisallow(module_name) ==
    LET top_level_package_name == Root(module_name) IN
    top_level_package_name = "torch" \/ is_stdlib_module(top_level_package_name)

_can_implicitly_extern(module_name) ==
    LET top_level_package_name == Root(module_name) IN
    top_level_package_name = "torch"
        \/ (top_level_package_name \notin _DISALLOWED_MODULES
            /\ is_stdlib_module(top_level_package_name))

(***************************************************************************)
(* Source texts and the import scanner.  A scanner pair is                 *)
(* <<dep_module_name, dep_module_obj>>, dep_module_obj optional; a         *)
(* relative import is reported against the enclosing package name.         *)
(***************************************************************************)
SrcPlain == "x = 1"
SrcImportB == "import b"
SrcImportC == "import c"
SrcLib == "from lib import x, w\nimport os\nimport ghost"
SrcRel == "from . import x\nfrom lib import w"
SrcB == "import sys"
SrcC == "import d\nfrom os import path"
SrcD == "import c\nimport torch.nn\nimport c"
SrcEmpty == ""

find_files_source_depends_on(src, package_name) ==
    CASE src = SrcImportB -> << <<NameB, <<>>>> >>
      [] src = SrcImportC -> << <<NameC, <<>>>> >>
      [] src = SrcLib -> << <<NameLib, <<"x">>>>, <<NameLib, <<"w">>>>, <<NameOs, <<>>>>,
                            <<NameGhost, <<>>>> >>
      [] src = SrcRel -> << <<package_name, <<"x">>>>, <<NameLib, <<"w">>>> >>
      [] src = SrcB -> << <<NameSys, <<>>>> >>
      [] src = SrcC -> << <<NameD, <<>>>>, <<NameOs, <<"path">>>> >>
      [] src = SrcD -> << <<NameC, <<>>>>, <<NameTorchNn, <<>>>>, <<NameC, <<>>>> >>
      [] OTHER -> <<>>

(***************************************************************************)
(* The importer: the modules of the environment.  file = FALSE is a        *)
(* module without a .py source file (built-in or extension module).        *)
(***************************************************************************)
ImporterModules ==
    (NameB :> [src |-> SrcB, is_package |-> FALSE, file |-> TRUE])
    @@ (NameC :> [src |-> SrcC, is_package |-> FALSE, file |-> TRUE])
    @@ (NameD :> [src |-> SrcD, is_package |-> TRUE, file |-> TRUE])
    @@ (NameLib :> [src |-> SrcEmpty, is_package |-> TRUE, file |-> TRUE])
    @@ (NameLibX :> [src |-> SrcPlain, is_package |-> FALSE, file |-> TRUE])
    @@ (NameLibW :> [src |-> SrcRel, is_package |-> FALSE, file |-> TRUE])
    @@ (NameSys :> [src |-> SrcEmpty, is_package |-> FALSE, file |-> FALSE])
    @@ (NameOs :> [src |-> SrcPlain, is_package |-> FALSE, file |-> TRUE])
    @@ (NameOsPath :> [src |-> SrcPlain, is_package |-> FALSE, file |-> TRUE])
    @@ (NameTorch :> [src |-> SrcPlain, is_package |-> TRUE, file |-> TRUE])
    @@ (NameTorchNn :> [src |-> SrcPlain, is_package |-> TRUE, file |-> TRUE])

\* the exception _import_module raises, "none" when it returns the module
_import_module(module_name) ==
    IF module_name \in DOMAIN ImporterModules THEN "none"
    ELSE IF ~is_mangled(module_name) THEN "NotFound"
    ELSE "NotFoundMangled"

_module_exists(module_name) == _import_module(module_name) = "none"

\* the exception _get_source_of_module raises for an imported module
_get_source_of_module(module_name) ==
    IF ImporterModules[module_name].file THEN "none" ELSE "SourceUnavailable"

(***************************************************************************)
(* glob_group.GlobGroup: include and exclude are sets of patterns, a       *)
(* pattern is a sequence of segments, "*" is one segment and "**" any      *)
(* number of segments.  Two GlobGroups are equal when their include and    *)
(* exclude are equal.                                                      *)
(***************************************************************************)
GlobGroup(include, exclude) == [include |-> include, exclude |-> exclude]

RECURSIVE GlobMatch(_, _)
GlobMatch(pattern, candidate) ==
    IF pattern = <<>> THEN candidate = <<>>
    ELSE IF Head(pattern) = "**"
        THEN \E k \in 0..Len(candidate) :
                GlobMatch(Tail(pattern), SubSeq(candidate, k + 1, Len(candidate)))
    ELSE IF candidate = <<>> THEN FALSE
    ELSE (Head(pattern) = "*" \/ Head(pattern) = Head(candidate))
            /\ GlobMatch(Tail(pattern), Tail(candidate))

\* GlobGroup.matches
matches(glob, candidate) ==
    /\ \E p \in glob.include : GlobMatch(p, candidate)
    /\ ~\E p \in glob.exclude : GlobMatch(p, candidate)

(***************************************************************************)
(* _digraph.DiGraph: nodes in insertion order, their attributes, edges.    *)
(***************************************************************************)
NoAttrs == [src |-> <<>>, is_package |-> <<>>, is_pickle |-> <<>>]

EmptyGraph == [nodes |-> <<>>, attrs |-> <<>>, edges |-> {}]

\* attribute merge of add_node: a keyword that is given replaces the old value
MergeAttrs(old, kw) ==
    [src |-> IF kw.src # <<>> THEN kw.src ELSE old.src,
     is_package |-> IF kw.is_package # <<>> THEN kw.is_package ELSE old.is_package,
     is_pickle |-> IF kw.is_pickle # <<>> THEN kw.is_pickle ELSE old.is_pickle]

NodeIndex(g, n) == CHOOSE i \in 1..Len(g.nodes) : g.nodes[i] = n

NodeAttrs(g, n) == g.attrs[NodeIndex(g, n)]

add_node(g, n, kw) ==
    IF Contains(g.nodes, n)
    THEN [g EXCEPT !.attrs[NodeIndex(g, n)] = MergeAttrs(@, kw)]
    ELSE [g EXCEPT !.nodes = Append(@, n), !.attrs = Append(@, MergeAttrs(NoAttrs, kw))]

add_edge(g, u, v) ==
    LET g1 == add_node(add_node(g, u, NoAttrs), v, NoAttrs) IN
    [g1 EXCEPT !.edges = @ \cup {<<u, v>>}]

(***************************************************************************)
(* PackageExporter._get_dependencies                                       *)
(***************************************************************************)
\* module_name if is_package else module_name.rsplit(".", maxsplit=1)[0]
PackageName(module_name, is_package) ==
    IF is_package \/ Len(module_name) = 1 THEN module_name
    ELSE SubSeq(module_name, 1, Len(module_name) - 1)

\* the loop without its continue: the parent is recorded next to the submodule
RECURSIVE DepsOfPairsWithParent(_, _)
DepsOfPairsWithParent(pairs, deps) ==
    IF pairs = <<>> THEN deps
    ELSE LET dep_module_name == Head(pairs)[1]
             dep_module_obj == Head(pairs)[2]
             possible_submodule == dep_module_name \o dep_module_obj
             d1 == IF dep_module_obj # <<>> /\ _module_exists(possible_submodule)
                   THEN DictAdd(deps, possible_submodule) ELSE deps
         IN  IF _module_exists(dep_module_name)
                THEN DepsOfPairsWithParent(Tail(pairs), DictAdd(d1, dep_module_name))
             ELSE DepsOfPairsWithParent(Tail(pairs), d1)

RECURSIVE DepsOfPairs(_, _)
DepsOfPairs(dep_pairs, dependencies) ==
    IF dep_pairs = <<>> THEN dependencies
    ELSE LET dep_module_name == Head(dep_pairs)[1]
             dep_module_obj == Head(dep_pairs)[2]
             possible_submodule == dep_module_name \o dep_module_obj
         IN  IF dep_module_obj # <<>> /\ _module_exists(possible_submodule)
                THEN DepsOfPairs(Tail(dep_pairs), DictAdd(dependencies, possible_submodule))
             ELSE IF _module_exists(dep_module_name)
                THEN DepsOfPairs(Tail(dep_pairs), DictAdd(dependencies, dep_module_name))
             ELSE DepsOfPairs(Tail(dep_pairs), dependencies)

_get_dependencies(src, module_name, is_package) ==
    DepsOfPairs(find_files_source_depends_on(src, PackageName(module_name, is_package)),
                <<>>)

(***************************************************************************)
(* The closure: _save_module and require_module_if_not_provided.  A closure*)
(* state is the graph with err (the exception raised, "none" so far),      *)
(* the scans run and the sequence of _save_module runs.                    *)
(***************************************************************************)
Closure(g, sc) ==
    [nodes |-> g.nodes, attrs |-> g.attrs, edges |-> g.edges, err |-> "none",
     scanned |-> sc, visits |-> <<>>]

GraphOf(c) == [nodes |-> c.nodes, attrs |-> c.attrs, edges |-> c.edges]

\* the record of a scan of module_name that reported deps
Scan(c, module_name, deps) ==
    [c EXCEPT !.scanned = @ \cup {[name |-> module_name, deps |-> deps]}]

RECURSIVE _save_module(_, _, _)
RECURSIVE RequireAll(_, _, _)

\* require_module_if_not_provided without its graph membership test; the
\* interpreter ends a runaway recursion with RecursionError
require_module_always(c, module_name) ==
    IF _can_implicitly_extern(module_name) THEN c
    ELSE IF Len(c.visits) >= 12 THEN [c EXCEPT !.err = "RecursionError"]
    ELSE _save_module(c, module_name, TRUE)

\* require_module_if_not_provided, and require_module which it calls
require_module_if_not_provided(c, module_name) ==
    IF Contains(c.nodes, module_name) \/ _can_implicitly_extern(module_name) THEN c
    ELSE _save_module(c, module_name, TRUE)

\* the loop over deps leaving after its first iteration
RequireFirstOnly(c, module_name, deps) ==
    IF deps = <<>> \/ c.err # "none" THEN c
    ELSE LET dep == Head(deps)
             c1 == require_module_if_not_provided(c, dep)
         IN  IF c1.err = "none" THEN add_edge(c1, module_name, dep) ELSE c1

\* for dep in deps: require_module_if_not_provided(dep); add_edge(module_name, dep)
RequireAll(c, module_name, deps) ==
    IF deps = <<>> \/ c.err # "none" THEN c
    ELSE LET dep == Head(deps)
             c1 == require_module_if_not_provided(c, dep)
             c2 == IF c1.err = "none" THEN add_edge(c1, module_name, dep) ELSE c1
         IN  RequireAll(c2, module_name, Tail(deps))

_save_module(c, module_name, dependencies) ==
    LET c0 == [c EXCEPT !.visits = Append(@, module_name)] IN
    IF _import_module(module_name) # "none"
        THEN [c0 EXCEPT !.err = _import_module(module_name)]
    ELSE IF _get_source_of_module(module_name) # "none"
        THEN [c0 EXCEPT !.err = _get_source_of_module(module_name)]
    ELSE LET c1 == add_node(c0, module_name, NoAttrs)
             module_obj == ImporterModules[module_name]
         IN  IF dependencies
             THEN LET deps == _get_dependencies(module_obj.src, module_name,
                                                module_obj.is_package)
                  IN  RequireAll(Scan(c1, module_name, deps), module_name, deps)
             ELSE c1

(***************************************************************************)
(* Archive paths and the writer.                                           *)
(***************************************************************************)
RECURSIVE Join(_, _)
Join(strs, sep) ==
    IF strs = <<>> THEN ""
    ELSE IF Len(strs) = 1 THEN strs[1]
    ELSE strs[1] \o sep \o Join(Tail(strs), sep)

\* the dotted text of a module name
Dotted(name) == Join(name, ".")

\* _write_source_string: module_name.replace(".", "/") + extension
SourcePath(module_name, is_package) ==
    IF is_package THEN module_name \o <<"__init__.py">>
    ELSE SubSeq(module_name, 1, Len(module_name) - 1)
            \o <<module_name[Len(module_name)] \o ".py">>

\* _importlib._normalize_path: a resource is given as its path components;
\* anything but a bare file name raises ValueError
_normalize_path(resource) ==
    IF Len(resource) # 1 THEN [err |-> "ValueError", name |-> ""]
    ELSE [err |-> "none", name |-> resource[1]]

\* _filename without the package part
_filename_flat(package, resource) ==
    LET n == _normalize_path(resource) IN [err |-> n.err, path |-> <<n.name>>]

\* _filename: package.replace(".", "/") + "/" + _normalize_path(resource)
_filename(package, resource) ==
    LET n == _normalize_path(resource) IN [err |-> n.err, path |-> package \o <<n.name>>]

Writer(recs) == [records |-> recs, err |-> "none"]

\* PyTorchFileWriter.write_record through self.zip_file
write_record(w, filename, data) ==
    IF w.err # "none" THEN w
    ELSE IF ~zip_open THEN [w EXCEPT !.err = "AttributeError"]
    ELSE IF \E i \in 1..Len(w.records) : w.records[i].path = filename
        THEN [w EXCEPT !.err = "DuplicateRecord"]
    ELSE [w EXCEPT !.records = Append(@, [path |-> filename, data |-> data])]

\* _write without the is_mangled test
_write_unchecked(w, filename, data) ==
    IF w.err # "none" THEN w ELSE write_record(w, filename, data)

_write(w, filename, data) ==
    IF w.err # "none" THEN w
    ELSE IF is_mangled(filename) THEN [w EXCEPT !.err = "InvalidName"]
    ELSE write_record(w, filename, data)

(***************************************************************************)
(* The policy: _match_patterns and its do_match.  A classification state   *)
(* is the three tables, the matched set and err.                           *)
(***************************************************************************)
Tables ==
    [intern |-> intern_modules, extern |-> extern_modules, mock |-> mock_modules,
     matched |-> matched_patterns, err |-> "none"]

\* action(module_name); self.matched_patterns.add(pattern)
FireRule(t, rule, module_name) ==
    CASE rule.action = "intern" ->
            [t EXCEPT !.intern = DictAdd(@, module_name), !.matched = @ \cup {rule.glob}]
      [] rule.action = "mock" ->
            [t EXCEPT !.mock = DictAdd(@, module_name), !.matched = @ \cup {rule.glob}]
      [] rule.action = "extern" ->
            [t EXCEPT !.extern = DictAdd(@, module_name), !.matched = @ \cup {rule.glob}]
      [] OTHER -> [t EXCEPT !.err = "DeniedModule"]

\* for pattern, action, _ in self.patterns: the first that matches fires
RECURSIVE LastMatchFires(_, _, _)
LastMatchFires(t, pats, module_name) ==
    IF pats = <<>> THEN t
    ELSE IF matches(pats[Len(pats)].glob, module_name)
        THEN FireRule(t, pats[Len(pats)], module_name)
    ELSE LastMatchFires(t, SubSeq(pats, 1, Len(pats) - 1), module_name)

RECURSIVE ScanPatterns(_, _, _)
ScanPatterns(t, pats, module_name) ==
    IF pats = <<>> THEN t
    ELSE IF matches(Head(pats).glob, module_name)
        THEN FireRule(t, Head(pats), module_name)
    ELSE ScanPatterns(t, Tail(pats), module_name)

\* do_match without the return that ends the implicit-extern branch
do_match_falls_through(t, module_name) ==
    LET base_name == <<Root(module_name)>> IN
    IF _can_implicitly_extern(base_name)
    THEN ScanPatterns([t EXCEPT !.extern = DictAdd(@, module_name)], patterns, module_name)
    ELSE ScanPatterns(t, patterns, module_name)

do_match(t, module_name) ==
    LET base_name == <<Root(module_name)>> IN
    IF _can_implicitly_extern(base_name)
    THEN [t EXCEPT !.extern = DictAdd(@, module_name)]
    ELSE ScanPatterns(t, patterns, module_name)

\* the loop of _match_patterns going on after a rule has raised
RECURSIVE MatchNodesNoAbort(_, _)
MatchNodesNoAbort(t, nodes) ==
    IF nodes = <<>> THEN t
    ELSE LET t1 == do_match([t EXCEPT !.err = "none"], Head(nodes)) IN
         MatchNodesNoAbort([t1 EXCEPT !.err = IF t.err # "none" THEN t.err ELSE @],
                           Tail(nodes))

\* for module_name in self.dependency_graph: do_match(module_name)
RECURSIVE MatchNodes(_, _)
MatchNodes(t, nodes) ==
    IF nodes = <<>> \/ t.err # "none" THEN t
    ELSE MatchNodes(do_match(t, Head(nodes)), Tail(nodes))

_match_patterns == MatchNodes(Tables, dependency_graph.nodes)

(***************************************************************************)
(* Storage keys: str(obj._cdata), a decimal text kept as its digits.       *)
(***************************************************************************)
RECURSIVE Str(_)
Str(n) == IF n < 10 THEN <<n>> ELSE Str(n \div 10) \o <<n % 10>>

DigitChar(d) ==
    CASE d = 0 -> "0" [] d = 1 -> "1" [] d = 2 -> "2" [] d = 3 -> "3" [] d = 4 -> "4"
      [] d = 5 -> "5" [] d = 6 -> "6" [] d = 7 -> "7" [] d = 8 -> "8" [] OTHER -> "9"

KeyText(key) == Join([i \in 1..Len(key) |-> DigitChar(key[i])], "")

\* the order of Python strings on decimal texts
RECURSIVE StrLess(_, _)
StrLess(k1, k2) ==
    IF k1 = <<>> THEN k2 # <<>>
    ELSE IF k2 = <<>> THEN FALSE
    ELSE IF Head(k1) # Head(k2) THEN Head(k1) < Head(k2)
    ELSE StrLess(Tail(k1), Tail(k2))

\* the keys in descending order
RECURSIVE sorted_descending(_)
sorted_descending(keys) ==
    IF keys = {} THEN <<>>
    ELSE LET greatest == CHOOSE k \in keys : \A k2 \in keys \ {k} : StrLess(k2, k)
         IN  <<greatest>> \o sorted_descending(keys \ {greatest})

\* sorted(self.serialized_storages.keys())
RECURSIVE sorted(_)
sorted(keys) ==
    IF keys = {} THEN <<>>
    ELSE LET least == CHOOSE k \in keys : \A k2 \in keys \ {k} : StrLess(k, k2)
         IN  <<least>> \o sorted(keys \ {least})

(***************************************************************************)
(* PackageExporter._compute_patterns and close.  A sealing state is the    *)
(* classification state with the writer's records.                         *)
(***************************************************************************)
_MOCK_IMPL == "from _mock import MockedObject\ndef __getattr__(attr: str): ..."

MockStub == "class MockedObject: ..."

\* the mock loop writing every redirection as a plain module
RECURSIVE WriteMocksFlat(_, _)
WriteMocksFlat(w, names) ==
    IF names = <<>> \/ w.err # "none" THEN w
    ELSE LET module_name == Head(names) IN
         IF _import_module(module_name) # "none"
         THEN [w EXCEPT !.err = _import_module(module_name)]
         ELSE WriteMocksFlat(_write(w, SourcePath(module_name, FALSE), _MOCK_IMPL),
                             Tail(names))

\* for module_name in self.mock_modules: ... self._write_source_string(...)
RECURSIVE WriteMocks(_, _)
WriteMocks(w, names) ==
    IF names = <<>> \/ w.err # "none" THEN w
    ELSE LET module_name == Head(names) IN
         IF _import_module(module_name) # "none"
         THEN [w EXCEPT !.err = _import_module(module_name)]
         ELSE WriteMocks(_write(w, SourcePath(module_name,
                                              ImporterModules[module_name].is_package),
                                _MOCK_IMPL),
                         Tail(names))

\* the intern loop fetching every source from the importer
WriteInternFromImporter(w, module_name) ==
    LET node_attrs == NodeAttrs(dependency_graph, module_name) IN
    IF node_attrs.is_pickle = <<TRUE>> THEN w
    ELSE IF _import_module(module_name) # "none"
        THEN [w EXCEPT !.err = _import_module(module_name)]
    ELSE IF _get_source_of_module(module_name) # "none"
        THEN [w EXCEPT !.err = _get_source_of_module(module_name)]
    ELSE _write(w, SourcePath(module_name, ImporterModules[module_name].is_package),
                ImporterModules[module_name].src)

\* one iteration of: for module_name in self.intern_modules
WriteIntern(w, module_name) ==
    LET node_attrs == NodeAttrs(dependency_graph, module_name) IN
    IF node_attrs.is_pickle = <<TRUE>> THEN w
    ELSE IF node_attrs.src # <<>>
        THEN _write(w, SourcePath(module_name, node_attrs.is_package[1]), node_attrs.src[1])
    ELSE IF _import_module(module_name) # "none"
        THEN [w EXCEPT !.err = _import_module(module_name)]
    ELSE IF _get_source_of_module(module_name) # "none"
        THEN [w EXCEPT !.err = _get_source_of_module(module_name)]
    ELSE _write(w, SourcePath(module_name, ImporterModules[module_name].is_package),
                ImporterModules[module_name].src)

RECURSIVE WriteInterns(_, _)
WriteInterns(w, names) ==
    IF names = <<>> \/ w.err # "none" THEN w
    ELSE WriteInterns(WriteIntern(w, Head(names)), Tail(names))

\* the manifest written with a newline after each name and no join
RECURSIVE extern_file_lines(_)
extern_file_lines(externs) ==
    IF externs = <<>> THEN ""
    ELSE Dotted(Head(externs)) \o "\n" \o extern_file_lines(Tail(externs))

\* "\n".join(self.extern_modules) + "\n"
extern_file_contents(externs) ==
    Join([i \in 1..Len(externs) |-> Dotted(externs[i])], "\n") \o "\n"

ExternManifestPath == <<".data", "extern_modules">>

\* the check for unclassified modules left out
UnmatchedNone(t) == {}

\* the modules that are in none of intern_modules, extern_modules, mock_modules
Unmatched(t) ==
    {n \in Range(dependency_graph.nodes) :
        ~(Contains(t.intern, n) \/ Contains(t.extern, n) \/ Contains(t.mock, n))}

\* the empty-match check without its allow_empty test
UnmatchedRulesAny(matched) ==
    {i \in 1..Len(patterns) : patterns[i].glob \notin matched}

\* the empty-match check with matchers compared by identity: a rule standing
\* behind an equal rule never fires, so it is never in the matched set
UnmatchedRulesByIdentity(matched) ==
    {i \in 1..Len(patterns) :
        /\ ~patterns[i].allow_empty
        /\ \/ patterns[i].glob \notin matched
           \/ \E j \in 1..(i - 1) : patterns[j].glob = patterns[i].glob}

\* the rules the empty-match check rejects
UnmatchedRules(matched) ==
    {i \in 1..Len(patterns) :
        ~patterns[i].allow_empty /\ patterns[i].glob \notin matched}

Sealed(t, w, err) ==
    [intern |-> t.intern, extern |-> t.extern, mock |-> t.mock, matched |-> t.matched,
     records |-> w.records, err |-> err]

\* _compute_patterns looking for unclassified modules before a deny is reported
_compute_patterns_unmatched_first ==
    LET t == MatchNodesNoAbort(Tables, dependency_graph.nodes)
        w0 == Writer(records)
        unmatched == Unmatched(t)
    IN  IF unmatched # {} THEN Sealed(t, w0, "Unclassified")
        ELSE IF t.err # "none" THEN Sealed(t, w0, t.err)
        ELSE IF UnmatchedRules(t.matched) # {} THEN Sealed(t, w0, "EmptyMatch")
        ELSE LET w1 == IF Len(t.mock) # 0
                       THEN _write(w0, SourcePath(<<"_mock">>, FALSE), MockStub)
                       ELSE w0
                 w2 == WriteMocks(w1, t.mock)
                 w3 == WriteInterns(w2, t.intern)
                 w4 == _write(w3, ExternManifestPath, extern_file_contents(t.extern))
             IN  Sealed(t, w4, w4.err)

\* _compute_patterns writing the interned sources ahead of the mock redirections
_compute_patterns_interns_first ==
    LET t == _match_patterns
        w0 == Writer(records)
        unmatched == Unmatched(t)
    IN  IF t.err # "none" THEN Sealed(t, w0, t.err)
        ELSE IF unmatched # {} THEN Sealed(t, w0, "Unclassified")
        ELSE IF UnmatchedRules(t.matched) # {} THEN Sealed(t, w0, "EmptyMatch")
        ELSE LET w1 == WriteInterns(w0, t.intern)
                 w2 == IF Len(t.mock) # 0
                       THEN _write(w1, SourcePath(<<"_mock">>, FALSE), MockStub)
                       ELSE w1
                 w3 == WriteMocks(w2, t.mock)
                 w4 == _write(w3, ExternManifestPath, extern_file_contents(t.extern))
             IN  Sealed(t, w4, w4.err)

_compute_patterns ==
    LET t == _match_patterns
        w0 == Writer(records)
        unmatched == Unmatched(t)
    IN  IF t.err # "none" THEN Sealed(t, w0, t.err)
        ELSE IF unmatched # {} THEN Sealed(t, w0, "Unclassified")
        ELSE IF UnmatchedRules(t.matched) # {} THEN Sealed(t, w0, "EmptyMatch")
        ELSE LET w1 == IF Len(t.mock) # 0
                       THEN _write(w0, SourcePath(<<"_mock">>, FALSE), MockStub)
                       ELSE w0
                 w2 == WriteMocks(w1, t.mock)
                 w3 == WriteInterns(w2, t.intern)
                 w4 == _write(w3, ExternManifestPath, extern_file_contents(t.extern))
             IN  Sealed(t, w4, w4.err)

\* for key in sorted(self.serialized_storages.keys()): self.zip_file.write_record(...)
RECURSIVE WriteStorages(_, _)
WriteStorages(w, keys) ==
    IF keys = <<>> \/ w.err # "none" THEN w
    ELSE WriteStorages(write_record(w, <<".data", KeyText(Head(keys)) \o ".storage">>,
                                    "storage " \o KeyText(Head(keys))),
                       Tail(keys))

(***************************************************************************)
(* The inputs of the public operations.                                    *)
(***************************************************************************)
SourceCalls ==
    {[name |-> NameA, src |-> SrcPlain, is_package |-> FALSE, dependencies |-> TRUE],
     [name |-> NameA, src |-> SrcImportB, is_package |-> FALSE, dependencies |-> TRUE],
     [name |-> NameA, src |-> SrcImportC, is_package |-> FALSE, dependencies |-> TRUE],
     [name |-> NameA, src |-> SrcImportC, is_package |-> TRUE, dependencies |-> FALSE],
     [name |-> NameA, src |-> SrcLib, is_package |-> FALSE, dependencies |-> TRUE],
     [name |-> NameC, src |-> SrcPlain, is_package |-> FALSE, dependencies |-> TRUE],
     [name |-> NameSys, src |-> SrcPlain, is_package |-> FALSE, dependencies |-> TRUE],
     [name |-> NameTorchNn, src |-> SrcPlain, is_package |-> TRUE, dependencies |-> TRUE],
     [name |-> NameMangled, src |-> SrcPlain, is_package |-> FALSE, dependencies |-> TRUE]}

ModuleCalls ==
    {[name |-> NameC, dependencies |-> TRUE],
     [name |-> NameC, dependencies |-> FALSE],
     [name |-> NameB, dependencies |-> TRUE],
     [name |-> NameLibW, dependencies |-> TRUE],
     [name |-> NameGhost, dependencies |-> TRUE],
     [name |-> NameMangled, dependencies |-> TRUE]}

\* a picklable object: the GLOBAL opcode arguments <<module, field>> of its
\* pickle in stream order, and the _cdata of the storages it holds
ObjC == [id |-> "pickle of c.C()", globals |-> << <<NameC, "C">> >>, storages |-> <<>>]

\* the storage objects of the run and the addresses the allocator may give them
StorageObjects == {"s1", "s2", "s3"}

CdataMaps ==
    {("s1" :> 140) @@ ("s2" :> 27) @@ ("s3" :> 9),
     ("s1" :> 27) @@ ("s2" :> 512) @@ ("s3" :> 9)}

ObjTensor ==
    [id |-> "pickle of a tensor",
     globals |-> << <<<<"torch", "_utils">>, "_rebuild_tensor_v2">>,
                    <<<<"collections">>, "OrderedDict">>,
                    <<<<"torch", "_utils">>, "_rebuild_parameter">> >>,
     storages |-> <<"s1", "s2", "s1">>]

ObjSys ==
    [id |-> "pickle of sys.flags",
     globals |-> << <<NameLibX, "X">>, <<NameSys, "flags">> >>,
     storages |-> <<"s3">>]

PickleCalls ==
    {[package |-> NamePkg, resource |-> <<"obj">>, obj |-> ObjC, dependencies |-> TRUE],
     [package |-> NamePkg, resource |-> <<"t">>, obj |-> ObjTensor, dependencies |-> TRUE],
     [package |-> NamePkg, resource |-> <<"flags">>, obj |-> ObjSys, dependencies |-> TRUE],
     [package |-> NameMangled, resource |-> <<"obj">>, obj |-> ObjC,
      dependencies |-> FALSE]}

ResourceCalls ==
    {[package |-> NamePkg, resource |-> <<"obj">>],
     [package |-> NamePkg, resource |-> <<"dir", "obj">>],
     [package |-> NameMangled, resource |-> <<"r">>]}

GlobAll == GlobGroup({<<"**">>}, {})
GlobLib == GlobGroup({<<"lib", "**">>}, {})
GlobLibNotX == GlobGroup({<<"lib", "*">>}, {NameLibX})
GlobD == GlobGroup({NameD}, {})
GlobNever == GlobGroup({<<"never", "*">>}, {})

InternCalls == {[glob |-> GlobAll, allow_empty |-> TRUE]}

MockCalls ==
    {[glob |-> GlobLib, allow_empty |-> FALSE],
     [glob |-> GlobAll, allow_empty |-> TRUE]}

ExternCalls ==
    {[glob |-> GlobNever, allow_empty |-> FALSE],
     [glob |-> GlobD, allow_empty |-> TRUE]}

DenyCalls == {GlobAll, GlobD, GlobLibNotX}

(***************************************************************************)
(* The state after construction (__init__), with a binary buffer as f.     *)
(***************************************************************************)
Init ==
    /\ zip_open = TRUE
    /\ buffer_flushed = FALSE
    /\ records = <<>>
    /\ serialized_storages = <<>>
    /\ intern_modules = <<>>
    /\ extern_modules = <<>>
    /\ mock_modules = <<>>
    /\ dependency_graph = EmptyGraph
    /\ patterns = <<>>
    /\ matched_patterns = {}
    /\ fault = "none"
    /\ last = [op |-> "__init__", name |-> <<>>, recs |-> 0, args |-> <<>>,
               visits |-> <<>>]
    /\ calls = 0
    /\ late = 0
    /\ seals = 0
    /\ exited = FALSE
    /\ phase = "open"
    /\ entered = {}
    /\ scanned = {}
    /\ enq_failed = FALSE
    /\ cdata \in CdataMaps
    /\ scan_pairs = <<>>
    /\ scan_deps = <<>>

Rule(glob, action, allow_empty) ==
    [glob |-> glob, action |-> action, allow_empty |-> allow_empty]

\* self.patterns.insert(0, (GlobGroup(module_name), self.save_intern_module, False))
_implicit_intern_appended(pats, module_name) ==
    Append(pats, Rule(GlobGroup({module_name}, {}), "intern", FALSE))

_implicit_intern(pats, module_name) ==
    <<Rule(GlobGroup({module_name}, {}), "intern", FALSE)>> \o pats

Called(op, name, args, visits) ==
    /\ calls < MaxCalls
    /\ calls' = calls + 1
    /\ IF phase = "open" THEN late' = late
       ELSE phase = "sealed" /\ late < MaxLate /\ late' = late + 1
    /\ last' = [op |-> op, name |-> name, recs |-> Len(records), args |-> args,
                visits |-> visits]

SealUnchanged ==
    UNCHANGED <<zip_open, buffer_flushed, intern_modules, extern_modules, mock_modules,
                matched_patterns, seals, exited, phase, cdata, scan_pairs, scan_deps>>

\* the dependency scan of save_source_string reading the text the node held
\* before the call
save_source_string_scans_stored(g, sc, module_name, src, is_package, dependencies) ==
    LET old == IF Contains(g.nodes, module_name) THEN NodeAttrs(g, module_name).src
               ELSE <<>>
        g1 == add_node(g, module_name,
                       [src |-> <<src>>, is_package |-> <<is_package>>,
                        is_pickle |-> <<>>])
        c1 == Closure(g1, sc)
        deps == IF old = <<>> THEN <<>>
                ELSE _get_dependencies(old[1], module_name, is_package)
    IN  IF dependencies
        THEN RequireAll(Scan(c1, module_name, deps), module_name, deps)
        ELSE c1

\* save_source_string leaving the text and flag of a node that already has them
save_source_string_keeps_first(g, sc, module_name, src, is_package, dependencies) ==
    LET had == Contains(g.nodes, module_name) /\ NodeAttrs(g, module_name).src # <<>>
        g1 == IF had THEN g
              ELSE add_node(g, module_name,
                            [src |-> <<src>>, is_package |-> <<is_package>>,
                             is_pickle |-> <<>>])
        c1 == Closure(g1, sc)
        deps == _get_dependencies(src, module_name, is_package)
    IN  IF dependencies
        THEN RequireAll(Scan(c1, module_name, deps), module_name, deps)
        ELSE c1

\* the effect of save_source_string on the graph g (sc: the scans so far)
save_source_string(g, sc, module_name, src, is_package, dependencies) ==
    LET g1 == add_node(g, module_name,
                       [src |-> <<src>>, is_package |-> <<is_package>>,
                        is_pickle |-> <<>>])
        c1 == Closure(g1, sc)
        deps == _get_dependencies(src, module_name, is_package)
    IN  IF dependencies
        THEN RequireAll(Scan(c1, module_name, deps), module_name, deps)
        ELSE c1

SaveSourceString(module_name, src, is_package, dependencies) ==
    LET c2 == save_source_string(dependency_graph, scanned, module_name, src,
                                 is_package, dependencies)
    IN  /\ Called("save_source_string", module_name,
                  [name |-> module_name, src |-> src, is_package |-> is_package,
                   dependencies |-> dependencies],
                  c2.visits)
        /\ patterns' = _implicit_intern(patterns, module_name)
        /\ dependency_graph' = GraphOf(c2)
        /\ scanned' = c2.scanned
        /\ fault' = c2.err
        /\ enq_failed' = (enq_failed \/ c2.err # "none")
        /\ entered' = entered \cup {[op |-> "save_source_string", name |-> module_name]}
        /\ UNCHANGED <<records, serialized_storages>>
        /\ SealUnchanged

SaveModule(module_name, dependencies) ==
    LET c == _save_module(Closure(dependency_graph, scanned), module_name, dependencies)
    IN  /\ Called("save_module", module_name,
                  [name |-> module_name, dependencies |-> dependencies], c.visits)
        /\ patterns' = _implicit_intern(patterns, module_name)
        /\ dependency_graph' = GraphOf(c)
        /\ scanned' = c.scanned
        /\ fault' = c.err
        /\ enq_failed' = (enq_failed \/ c.err # "none")
        /\ entered' = entered \cup {[op |-> "save_module", name |-> module_name]}
        /\ UNCHANGED <<records, serialized_storages>>
        /\ SealUnchanged

\* f"<{package}.{resource}>"
PickleKey(package, resource) ==
    <<"<" \o Head(package)>> \o Tail(package) \o <<Join(resource, "/") \o ">">>

\* _persistent_id on every storage the pickler meets:
\* self.serialized_storages[str(obj._cdata)] = obj
RECURSIVE PersistAll(_, _)
PersistAll(storages, objs) ==
    IF objs = <<>> THEN storages
    ELSE PersistAll(DictAdd(storages, Str(cdata[Head(objs)])), Tail(objs))

\* data_value: the pickle stream carries the persistent id of every storage
PickleBytes(obj) ==
    obj.id \o Join([i \in 1..Len(obj.storages) |->
                        " storage " \o KeyText(Str(cdata[obj.storages[i]]))], "")

\* the scan of the opcodes stopping at the first GLOBAL
GlobalModulesFirstOnly(globals, all_dependencies) ==
    IF globals = <<>> THEN all_dependencies
    ELSE DictAdd(all_dependencies, Head(globals)[1])

\* the modules of the GLOBAL opcodes: arg.split(" ")[0], each once, in stream order
RECURSIVE GlobalModules(_, _)
GlobalModules(globals, all_dependencies) ==
    IF globals = <<>> THEN all_dependencies
    ELSE GlobalModules(Tail(globals), DictAdd(all_dependencies, Head(globals)[1]))

SavePickle(package, resource, obj, dependencies) ==
    LET filename == _filename(package, resource)
        name_in_dependency_graph == PickleKey(package, resource)
        g1 == add_node(dependency_graph, name_in_dependency_graph,
                       [src |-> <<>>, is_package |-> <<>>, is_pickle |-> <<TRUE>>])
        c1 == Closure(g1, scanned)
        all_dependencies == GlobalModules(obj.globals, <<>>)
        c2 == IF dependencies
              THEN RequireAll(Scan(c1, name_in_dependency_graph, all_dependencies),
                              name_in_dependency_graph, all_dependencies)
              ELSE c1
        w == IF c2.err = "none"
             THEN _write(Writer(records), filename.path, PickleBytes(obj))
             ELSE [records |-> records, err |-> c2.err]
    IN  /\ Called("save_pickle", name_in_dependency_graph,
                  [package |-> package, resource |-> resource, obj |-> obj,
                   dependencies |-> dependencies],
                  IF filename.err = "none" THEN c2.visits ELSE <<>>)
        /\ IF filename.err # "none"
           THEN /\ fault' = filename.err
                /\ enq_failed' = TRUE
                /\ UNCHANGED <<serialized_storages, patterns, dependency_graph, scanned,
                               records, entered>>
           ELSE /\ serialized_storages' = PersistAll(serialized_storages, obj.storages)
                /\ patterns' = Append(patterns,
                                      Rule(GlobGroup({name_in_dependency_graph}, {}),
                                           "intern", TRUE))
                /\ dependency_graph' = GraphOf(c2)
                /\ scanned' = c2.scanned
                /\ records' = w.records
                /\ fault' = w.err
                /\ enq_failed' = (enq_failed \/ w.err # "none")
                /\ entered' = entered \cup
                      {[op |-> "save_pickle", name |-> name_in_dependency_graph]}
        /\ SealUnchanged

SaveBinary(package, resource, binary) ==
    LET filename == _filename(package, resource)
        w == IF filename.err # "none" THEN [records |-> records, err |-> filename.err]
             ELSE _write(Writer(records), filename.path, binary)
    IN
    /\ Called("save_binary", package, [package |-> package, resource |-> resource],
              <<>>)
    /\ records' = w.records
    /\ fault' = w.err
    /\ enq_failed' = (enq_failed \/ w.err # "none")
    /\ UNCHANGED <<serialized_storages, dependency_graph, patterns, scanned, entered>>
    /\ SealUnchanged

\* save_text: save_binary(package, resource, text.encode("utf-8"))
SaveText(package, resource, text) ==
    LET filename == _filename(package, resource)
        w == IF filename.err # "none" THEN [records |-> records, err |-> filename.err]
             ELSE _write(Writer(records), filename.path, text)
    IN
    /\ Called("save_text", package, [package |-> package, resource |-> resource],
              <<>>)
    /\ records' = w.records
    /\ fault' = w.err
    /\ enq_failed' = (enq_failed \/ w.err # "none")
    /\ UNCHANGED <<serialized_storages, dependency_graph, patterns, scanned, entered>>
    /\ SealUnchanged

AddRule(op, rule) ==
    /\ Called(op, <<>>, rule, <<>>)
    /\ patterns' = Append(patterns, rule)
    /\ fault' = "none"
    /\ UNCHANGED <<records, serialized_storages, dependency_graph, scanned, entered,
                   enq_failed>>
    /\ SealUnchanged

Intern(glob, allow_empty) == AddRule("intern", Rule(glob, "intern", allow_empty))

Mock(glob, allow_empty) == AddRule("mock", Rule(glob, "mock", allow_empty))

Extern(glob, allow_empty) == AddRule("extern", Rule(glob, "extern", allow_empty))

Deny(glob) == AddRule("deny", Rule(glob, "deny", TRUE))

(***************************************************************************)
(* close, _finalize_zip and __exit__.                                      *)
(***************************************************************************)
\* del self.zip_file; if self.buffer: self.buffer.flush()
_finalize_zip ==
    /\ zip_open' = FALSE
    /\ buffer_flushed' = TRUE

\* the body of close(): _compute_patterns, the storages, _finalize_zip
CloseBody ==
    LET s == _compute_patterns
        w == IF s.err = "none"
             THEN WriteStorages(Writer(s.records), sorted(Range(serialized_storages)))
             ELSE [records |-> s.records, err |-> s.err]
    IN  /\ intern_modules' = s.intern
        /\ extern_modules' = s.extern
        /\ mock_modules' = s.mock
        /\ matched_patterns' = s.matched
        /\ records' = w.records
        /\ fault' = w.err
        /\ IF w.err = "none" THEN _finalize_zip /\ phase' = "sealed"
           ELSE UNCHANGED <<zip_open, buffer_flushed>> /\ phase' = "faulted"
        /\ UNCHANGED <<serialized_storages, dependency_graph, patterns, calls, late,
                       entered, scanned, enq_failed, cdata, scan_pairs, scan_deps>>

Sealing(op) ==
    /\ seals < MaxSeals
    /\ seals' = seals + 1
    /\ last' = [op |-> op, name |-> <<>>, recs |-> Len(records), args |-> <<>>,
                visits |-> <<>>]

Close ==
    /\ Sealing("close")
    /\ CloseBody
    /\ UNCHANGED exited

\* __exit__ with exc_type None: the body of the with-block ended normally
ExitNormal ==
    /\ ~exited
    /\ exited' = TRUE
    /\ Sealing("__exit__")
    /\ CloseBody

\* __exit__ with an exception raised by the body of the with-block: it runs
\* _finalize_zip and returns None, so the body's exception propagates; del
\* self.zip_file raises AttributeError when close() already deleted it
ExitException(exc) ==
    /\ ~exited
    /\ exited' = TRUE
    /\ IF zip_open
       THEN /\ _finalize_zip
            /\ fault' = exc
            /\ phase' = IF phase = "open" THEN "aborted" ELSE phase
       ELSE /\ UNCHANGED <<zip_open, buffer_flushed, phase>>
            /\ fault' = "AttributeError"
    /\ last' = [op |-> "__exit__ exc", name |-> <<>>, recs |-> Len(records),
                args |-> <<>>, visits |-> <<>>]
    /\ UNCHANGED <<records, serialized_storages, intern_modules, extern_modules,
                   mock_modules, dependency_graph, patterns, matched_patterns, calls,
                   late, seals, entered, scanned, enq_failed, cdata, scan_pairs,
                   scan_deps>>

\* the exception the body of the with-block leaves with: the one the last call
\* raised, or one of the caller's own
BodyException == IF fault # "none" THEN fault ELSE "KeyError"

Next ==
    \/ \E a \in SourceCalls :
        SaveSourceString(a.name, a.src, a.is_package, a.dependencies)
    \/ \E a \in ModuleCalls : SaveModule(a.name, a.dependencies)
    \/ \E a \in PickleCalls : SavePickle(a.package, a.resource, a.obj, a.dependencies)
    \/ \E a \in ResourceCalls : SaveBinary(a.package, a.resource, "bytes")
    \/ SaveText(NamePkg, <<"readme">>, "text")
    \/ \E a \in InternCalls : Intern(a.glob, a.allow_empty)
    \/ \E a \in MockCalls : Mock(a.glob, a.allow_empty)
    \/ \E a \in ExternCalls : Extern(a.glob, a.allow_empty)
    \/ \E g \in DenyCalls : Deny(g)
    \/ Close
    \/ ExitNormal
    \/ ExitException(BodyException)

Spec == Init /\ [][Next]_vars

(***************************************************************************)
(* Vocabulary of the properties, written from the specification's terms.   *)
(***************************************************************************)
Nodes == Range(dependency_graph.nodes)

\* the state right after the first run of close(), explicit or through __exit__
JustSealed == seals = 1 /\ last.op \in {"close", "__exit__"}

\* the records close() wrote: none
WroteNothing == Len(records) = last.recs

InTable(table, n) == Contains(table, n)

TablesOf(n) ==
    {a \in {"intern", "mock", "extern"} :
        \/ a = "intern" /\ InTable(intern_modules, n)
        \/ a = "mock" /\ InTable(mock_modules, n)
        \/ a = "extern" /\ InTable(extern_modules, n)}

\* the implicit extern decision as the specification words it
ImplicitlyExterned(n) ==
    \/ Head(n) = "torch"
    \/ Head(n) \notin {"sys", "io"} /\ is_stdlib_module(Head(n))

\* the indices of the rules of a pattern table whose matcher accepts n
Accepting(pats, n) == {i \in 1..Len(pats) : matches(pats[i].glob, n)}

FirstAccepting(pats, n) ==
    CHOOSE i \in Accepting(pats, n) : \A j \in Accepting(pats, n) : i <= j

\* the disposition the pattern table gives n: the action of its first accepting
\* rule, "none" when no rule accepts it
Disposition(pats, n) ==
    IF Accepting(pats, n) = {} THEN "none" ELSE pats[FirstAccepting(pats, n)].action

\* the nodes the pattern table classifies
ByTable == {n \in Nodes : ~ImplicitlyExterned(n)}

DeniedNodes == {n \in ByTable : Disposition(patterns, n) = "deny"}

UnclassifiedNodes == {n \in ByTable : Disposition(patterns, n) = "none"}

RemoveAt(pats, i) == SubSeq(pats, 1, i - 1) \o SubSeq(pats, i + 1, Len(pats))

\* the matchers the first accepting rules of the given nodes carry
FiredMatchers(ns) ==
    {patterns[FirstAccepting(patterns, n)].glob :
        n \in {m \in ns : Disposition(patterns, m) \notin {"none", "deny"}}}

(***************************************************************************)
(* C1. Partitioning: when the first finalize, after any sequence of save   *)
(* and rule calls, completes successfully, interned, mocked and externed   *)
(* are pairwise disjoint and every node of the graph is in exactly one.    *)
(***************************************************************************)
C1_Partitioning ==
    (JustSealed /\ fault = "none") =>
        /\ \A n \in Nodes : Cardinality(TablesOf(n)) = 1
        /\ Range(intern_modules) \cap Range(mock_modules) = {}
        /\ Range(intern_modules) \cap Range(extern_modules) = {}
        /\ Range(mock_modules) \cap Range(extern_modules) = {}
        /\ Range(intern_modules) \cup Range(mock_modules) \cup Range(extern_modules)
              = Nodes

C1_Witness ==
    /\ JustSealed /\ fault = "none"
    /\ intern_modules # <<>> /\ mock_modules # <<>> /\ extern_modules # <<>>
    /\ \E n \in Nodes : ImplicitlyExterned(n) /\ Accepting(patterns, n) # {}

(***************************************************************************)
(* C2. First match wins: when the classification pass of the first         *)
(* finalize completes, every node classified through the pattern table is  *)
(* in the table of its lowest-index accepting rule and in no other, the    *)
(* matched set holds exactly the matchers of these firing rules, and       *)
(* removing a rule before the firing rule changes the node's disposition   *)
(* if and only if the removed rule's matcher accepted the name.            *)
(***************************************************************************)
C2_FirstMatchWins ==
    (JustSealed /\ fault # "DeniedModule") =>
        /\ \A n \in ByTable :
              Disposition(patterns, n) # "none" =>
                /\ TablesOf(n) = {Disposition(patterns, n)}
                /\ \A i \in 1..(FirstAccepting(patterns, n) - 1) :
                      (Disposition(RemoveAt(patterns, i), n) # Disposition(patterns, n))
                          <=> matches(patterns[i].glob, n)
        /\ matched_patterns = FiredMatchers(ByTable)

C2_Witness ==
    /\ JustSealed /\ fault = "none"
    /\ \E n \in ByTable :
          /\ FirstAccepting(patterns, n) > 1
          /\ \E i \in Accepting(patterns, n) :
                patterns[i].action # Disposition(patterns, n)
          /\ TablesOf(n) = {"mock"}

(***************************************************************************)
(* C3. Implicit interning takes precedence: when the classification pass   *)
(* of the first finalize completes, every name that save_source_string or  *)
(* save_module entered into the graph is interned and in no other table,   *)
(* whatever user rules stand in the table and whatever its root.           *)
(***************************************************************************)
UserSaved ==
    {e.name : e \in {x \in entered : x.op \in {"save_source_string", "save_module"}}}
        \cap Nodes

C3_ImplicitInternPrecedence ==
    (JustSealed /\ fault # "DeniedModule") =>
        \A n \in UserSaved : TablesOf(n) = {"intern"}

(***************************************************************************)
(* What the code does for user-saved names: a name whose root is not       *)
(* implicitly externed is interned and in no other table, whatever user    *)
(* rules stand in the table; a name whose root is implicitly externed is   *)
(* externed, and its prepended intern rule never fires.                    *)
(***************************************************************************)
UserSavedDisposition ==
    (JustSealed /\ fault # "DeniedModule") =>
        \A n \in UserSaved :
            TablesOf(n) = IF ImplicitlyExterned(n) THEN {"extern"} ELSE {"intern"}

UserSavedWitness ==
    /\ JustSealed /\ fault = "none"
    /\ \E n \in UserSaved :
          /\ ~ImplicitlyExterned(n)
          /\ TablesOf(n) = {"intern"}
          /\ \E i \in Accepting(patterns, n) : patterns[i].action = "deny"
          /\ \E i \in Accepting(patterns, n) : patterns[i].action = "mock"

(***************************************************************************)
(* C4. Implicit extern decision: when the classification pass of the first *)
(* finalize completes, a node is externed without the pattern table iff    *)
(* its root is torch, or is not sys or io and is a stdlib root: such a     *)
(* node is in externed under its full name and in no other table, no       *)
(* matcher is recorded on its account, and a deny rule that accepts it     *)
(* raises nothing; every other node, those with root sys or io included,   *)
(* gets the disposition of the pattern table.                              *)
(***************************************************************************)
C4_ImplicitExtern ==
    /\ (JustSealed /\ fault # "DeniedModule") =>
          /\ \A n \in Nodes :
                TablesOf(n) =
                    IF ImplicitlyExterned(n) THEN {"extern"}
                    ELSE {Disposition(patterns, n)} \ {"none"}
          /\ matched_patterns \subseteq FiredMatchers(Nodes \ {n \in Nodes : ImplicitlyExterned(n)})
    /\ (JustSealed /\ fault = "DeniedModule") =>
          \E n \in Nodes : ~ImplicitlyExterned(n) /\ Disposition(patterns, n) = "deny"

C4_Witness ==
    /\ JustSealed /\ fault = "none"
    /\ \E n \in Nodes :
          /\ ImplicitlyExterned(n)
          /\ Len(n) > 1
          /\ Disposition(patterns, n) = "deny"
          /\ InTable(extern_modules, n)
    /\ \E n \in Nodes : Head(n) = "sys" /\ TablesOf(n) = {"intern"}

(***************************************************************************)
(* C5. Deny aborts sealing: if at the first finalize some node that is not *)
(* implicitly externed has a deny rule as its first accepting rule,        *)
(* finalize raises DeniedModule at the first such node in graph order: the *)
(* nodes before it are classified, that node and the later ones are in no  *)
(* table, and finalize writes no record; and DeniedModule is raised in no  *)
(* other case.                                                             *)
(***************************************************************************)
FirstDenied ==
    CHOOSE i \in 1..Len(dependency_graph.nodes) :
        /\ dependency_graph.nodes[i] \in DeniedNodes
        /\ \A j \in 1..(i - 1) : dependency_graph.nodes[j] \notin DeniedNodes

C5_DenyAborts ==
    JustSealed =>
        /\ (fault = "DeniedModule") <=> (DeniedNodes # {})
        /\ DeniedNodes # {} =>
              /\ WroteNothing
              /\ \A i \in 1..Len(dependency_graph.nodes) :
                    LET n == dependency_graph.nodes[i] IN
                    TablesOf(n) =
                        IF i >= FirstDenied THEN {}
                        ELSE IF ImplicitlyExterned(n) THEN {"extern"}
                        ELSE {Disposition(patterns, n)} \ {"none"}

C5_Witness ==
    /\ JustSealed /\ fault = "DeniedModule"
    /\ records # <<>>
    /\ FirstDenied > 1 /\ FirstDenied < Len(dependency_graph.nodes)
    /\ intern_modules # <<>>
    /\ \E i \in (FirstDenied + 1)..Len(dependency_graph.nodes) :
          ImplicitlyExterned(dependency_graph.nodes[i])

(***************************************************************************)
(* C6. Writer closed on a sealing fault: whenever the first finalize,      *)
(* explicit or through leaving the scope normally, raises DeniedModule,    *)
(* UnclassifiedModule, EmptyMatch, SourceUnavailable or InvalidName, the   *)
(* archive writer has been finalised when the fault reaches the caller.    *)
(***************************************************************************)
SealingFaults ==
    {"DeniedModule", "Unclassified", "EmptyMatch", "SourceUnavailable", "InvalidName"}

C6_WriterClosedOnFault ==
    (JustSealed /\ fault \in SealingFaults) => (~zip_open /\ buffer_flushed)

(***************************************************************************)
(* C7. Scoped release: when the body of the resource scope raises in the   *)
(* open phase, leaving the scope closes the writer, runs no classification,*)
(* writes no record, leaves the disposition tables empty and lets the      *)
(* body's exception propagate; and on every exit path of the scope, normal *)
(* exit included, the writer is released.                                  *)
(***************************************************************************)
BodyFaultRelease ==
    (last.op = "__exit__ exc" /\ seals = 0) =>
        /\ ~zip_open /\ buffer_flushed
        /\ WroteNothing
        /\ intern_modules = <<>> /\ mock_modules = <<>> /\ extern_modules = <<>>
        /\ matched_patterns = {}
        /\ fault \notin {"none", "AttributeError"}

C7_ScopedRelease ==
    /\ BodyFaultRelease
    /\ exited => ~zip_open

(***************************************************************************)
(* C8. Unclassified nodes fail sealing, as claimed: if at the first        *)
(* finalize some node is not implicitly externed and no rule accepts it,   *)
(* finalize raises the unclassified-module fault and writes no record.     *)
(***************************************************************************)
C8_Original ==
    (JustSealed /\ UnclassifiedNodes # {}) => (fault = "Unclassified" /\ WroteNothing)

(***************************************************************************)
(* C8 as amended: if at the first finalize some node is not implicitly     *)
(* externed and no rule accepts it, and no node has a deny rule as its     *)
(* first accepting rule, finalize raises the unclassified-module fault and *)
(* writes no record; the fault is raised in no other case, and no save or  *)
(* rule call raises it.                                                    *)
(***************************************************************************)
C8_UnclassifiedFails ==
    /\ JustSealed =>
          /\ (UnclassifiedNodes # {} /\ DeniedNodes = {}) <=> (fault = "Unclassified")
          /\ fault = "Unclassified" => WroteNothing
    /\ fault = "Unclassified" => last.op \in {"close", "__exit__", "__exit__ exc"}

C8_Witness ==
    /\ JustSealed /\ fault = "Unclassified"
    /\ records # <<>>
    /\ patterns # <<>>
    /\ intern_modules # <<>> /\ extern_modules # <<>>

(***************************************************************************)
(* C9. Empty-match enforcement: once the first finalize has classified     *)
(* every node without a deny or unclassified fault, it raises EmptyMatch   *)
(* if and only if the pattern table holds a rule with allow_empty = false  *)
(* whose matcher is not in the matched set, and then it has written no     *)
(* record; every deny rule has allow_empty = true.                         *)
(***************************************************************************)
C9_EmptyMatch ==
    /\ (JustSealed /\ fault \notin {"DeniedModule", "Unclassified"}) =>
          /\ (fault = "EmptyMatch") <=>
                (\E i \in 1..Len(patterns) :
                    patterns[i].allow_empty = FALSE
                        /\ patterns[i].glob \notin matched_patterns)
          /\ fault = "EmptyMatch" => WroteNothing
    /\ \A i \in 1..Len(patterns) : patterns[i].action = "deny" => patterns[i].allow_empty

C9_Witness ==
    /\ JustSealed /\ fault = "EmptyMatch"
    /\ dependency_graph.nodes # <<>>
    /\ \E i \in 1..Len(patterns) :
          patterns[i].action = "deny" /\ patterns[i].glob \notin matched_patterns
    /\ \E i \in 1..Len(patterns) :
          ~patterns[i].allow_empty /\ patterns[i].glob \notin matched_patterns
    /\ matched_patterns # {}

SaveOps == {"save_source_string", "save_module", "save_pickle"}

C11_ClosureTerminates ==
    last.op \in SaveOps =>
        /\ \A i, j \in 1..Len(last.visits) : last.visits[i] = last.visits[j] => i = j
        /\ Len(last.visits) <= Cardinality(DOMAIN ImporterModules) + 1
        /\ fault = "none" => Range(last.visits) \subseteq Nodes

C11_Witness ==
    /\ last.op \in SaveOps /\ fault = "none"
    /\ Len(last.visits) >= 2
    /\ {<<NameC, NameD>>, <<NameD, NameC>>, <<NameLibW, NameLibW>>}
          \subseteq dependency_graph.edges

(***************************************************************************)
(* C12. Pickle keys are always interned: at the first finalize, whatever   *)
(* user rules were added before or after save_pickle, the first accepting  *)
(* rule of every pickle-key node is an intern rule, the node is in the     *)
(* interned table and in no other once classification has passed it, it    *)
(* carries no source text and no source record is written for it.          *)
(***************************************************************************)
PickleKeys == {n \in Nodes : NodeAttrs(dependency_graph, n).is_pickle = <<TRUE>>}

C12_PickleKeysInterned ==
    JustSealed =>
        \A n \in PickleKeys :
            /\ Disposition(patterns, n) = "intern"
            /\ fault # "DeniedModule" => TablesOf(n) = {"intern"}
            /\ NodeAttrs(dependency_graph, n).src = <<>>
            /\ \A i \in 1..Len(records) :
                  records[i].path \notin {SourcePath(n, TRUE), SourcePath(n, FALSE)}

\* the part that holds: a pickle-key node that no earlier user rule accepts is
\* interned, and no source record is ever written for a pickle key
PickleKeysUnshadowed ==
    JustSealed =>
        \A n \in PickleKeys :
            /\ (\A i \in Accepting(patterns, n) :
                    patterns[i].glob = GlobGroup({n}, {}) \/ patterns[i].action = "intern")
                  => (Disposition(patterns, n) = "intern"
                        /\ (fault # "DeniedModule" => TablesOf(n) = {"intern"}))
            /\ NodeAttrs(dependency_graph, n).src = <<>>
            /\ \A i \in 1..Len(records) :
                  records[i].path \notin {SourcePath(n, TRUE), SourcePath(n, FALSE)}

(***************************************************************************)
(* C13. Extern manifest: every successful first finalize writes exactly    *)
(* one record at .data/extern_modules; its content is the externed names,  *)
(* each once, in graph insertion order, each followed by a newline, and a  *)
(* single newline when no module is externed.                              *)
(***************************************************************************)
IsExterned(n) == ImplicitlyExterned(n) \/ Disposition(patterns, n) = "extern"

ExternedInOrder == SelectSeq(dependency_graph.nodes, IsExterned)

RECURSIVE ManifestLines(_)
ManifestLines(names) ==
    IF names = <<>> THEN ""
    ELSE Join(Head(names), ".") \o "\n" \o ManifestLines(Tail(names))

ExpectedManifest ==
    IF ExternedInOrder = <<>> THEN "\n" ELSE ManifestLines(ExternedInOrder)

ManifestRecords == {i \in 1..Len(records) : records[i].path = <<".data", "extern_modules">>}

C13_ExternManifest ==
    /\ (JustSealed /\ fault = "none") =>
          /\ Cardinality(ManifestRecords) = 1
          /\ \A i \in ManifestRecords : records[i].data = ExpectedManifest /\ i > last.recs
          /\ extern_modules = ExternedInOrder
    /\ seals = 0 => ManifestRecords = {}

C13_Witness ==
    /\ JustSealed /\ fault = "none"
    /\ Len(extern_modules) >= 3
    /\ \E n \in Range(extern_modules) : ~ImplicitlyExterned(n)
    /\ \E n \in Range(extern_modules) : ImplicitlyExterned(n)

C13_WitnessEmpty ==
    JustSealed /\ fault = "none" /\ extern_modules = <<>> /\ intern_modules = <<NameA>>

(***************************************************************************)
(* C14. Determinism: two runs that perform the same operations with the    *)
(* same arguments and importer responses write the same records, the names *)
(* of the storage records included.  The runs differ in nothing but the    *)
(* addresses of their storage objects, so the storage record names a       *)
(* successful finalize wrote are those it writes under every assignment of *)
(* addresses.                                                              *)
(***************************************************************************)
StoragesSeen == {o \in StorageObjects : Str(cdata[o]) \in Range(serialized_storages)}

IsStorageRecord(r) ==
    Len(r.path) = 2 /\ r.path[1] = ".data" /\ r.path # <<".data", "extern_modules">>

StorageNames ==
    LET rs == SelectSeq(records, IsStorageRecord) IN [i \in 1..Len(rs) |-> rs[i].path]

StorageNamesUnder(m) ==
    LET keys == sorted({Str(m[o]) : o \in StoragesSeen})
    IN  [i \in 1..Len(keys) |-> <<".data", KeyText(keys[i]) \o ".storage">>]

C14_Determinism ==
    (JustSealed /\ fault = "none") =>
        \A m \in CdataMaps : StorageNames = StorageNamesUnder(m)

(***************************************************************************)
(* C15. Mangled-name rejection: no record whose path starts with a mangled *)
(* name is ever written; save_binary, save_text and save_pickle with a     *)
(* mangled package raise InvalidName (save_pickle unless its dependency    *)
(* scan raised before), save_module of a mangled name raises NotFound with *)
(* the re-export diagnostic, and a finalize over a graph that holds a      *)
(* mangled name fails: with InvalidName unless classification, a check or  *)
(* an earlier emission raised before (AttributeError: the scope had been   *)
(* left on a body fault and the writer was gone).                          *)
(***************************************************************************)
MangledNodes == {n \in Nodes : is_mangled(n)}

C15_MangledRejected ==
    /\ \A i \in 1..Len(records) : ~is_mangled(records[i].path)
    /\ (last.op \in {"save_binary", "save_text"} /\ is_mangled(last.args.package)) =>
          (fault = "InvalidName" /\ WroteNothing)
    /\ (last.op = "save_pickle" /\ is_mangled(last.args.package)) =>
          /\ WroteNothing
          /\ \/ fault = "InvalidName"
             \/ last.args.dependencies
                  /\ fault \in {"NotFound", "NotFoundMangled", "SourceUnavailable"}
    /\ (last.op = "save_module" /\ is_mangled(last.name)) =>
          fault = "NotFoundMangled"
    /\ (JustSealed /\ MangledNodes # {}) =>
          /\ fault \in {"InvalidName", "DeniedModule", "Unclassified", "EmptyMatch",
                        "NotFound", "SourceUnavailable", "DuplicateRecord",
                        "AttributeError"}
          /\ (Nodes = MangledNodes /\ Len(patterns) = 1 /\ phase # "aborted") =>
                fault = "InvalidName"

C15_Witness ==
    /\ JustSealed /\ fault = "InvalidName"
    /\ MangledNodes # {}
    /\ Len(records) > last.recs
    /\ last.recs > 0

(***************************************************************************)
(* C16. Two-phase lifecycle: after finalize has completed, every further   *)
(* save or rule call is rejected (it raises) and leaves the dependency     *)
(* graph, the pattern table, the disposition tables and the archive        *)
(* records unchanged.                                                      *)
(***************************************************************************)
C16_TwoPhase ==
    [][(phase = "sealed" /\ calls' = calls + 1) =>
          /\ fault' # "none"
          /\ UNCHANGED <<dependency_graph, patterns, intern_modules, extern_modules,
                         mock_modules, records>>]_vars

\* what does hold after a completed finalize: the writer is gone, so no call
\* adds a record, and the disposition tables stay as finalize left them
SealedArchiveFrozen ==
    [][phase = "sealed" =>
          UNCHANGED <<records, intern_modules, extern_modules, mock_modules, zip_open>>]_vars

(***************************************************************************)
(* C17. Idempotence of add: after save_source_string(name, src,            *)
(* is_package, dependencies) has returned, the same call with unchanged    *)
(* arguments returns again and leaves the dependency graph (nodes, node    *)
(* attributes, edges) exactly as it was.                                   *)
(***************************************************************************)
Repeated ==
    save_source_string(dependency_graph, scanned, last.args.name, last.args.src,
                       last.args.is_package, last.args.dependencies)

ScenarioAB ==
    /\ calls = 1
    /\ Contains(dependency_graph.nodes, NameA)
    /\ NodeAttrs(dependency_graph, NameA).src = <<SrcImportB>>

C18_Scenario ==
    ScenarioAB =>
        /\ last.op = "save_source_string" => (fault = "none" /\ {NameB, NameSys} \subseteq Nodes)
        /\ JustSealed =>
              /\ fault = "none"
              /\ InTable(intern_modules, NameA) /\ InTable(intern_modules, NameB)
              /\ InTable(extern_modules, NameSys)
              /\ \E i \in 1..Len(records) :
                    records[i].path = <<".data", "extern_modules">>
                        /\ records[i].data = "sys\n"

\* what the scenario does: the call raises for sys, which is neither implicitly
\* externed nor has a source file; a and b stay in the graph, and a finalize
\* that follows finds b unclassified and writes nothing
ScenarioOutcome ==
    ScenarioAB =>
        /\ Nodes = {NameA, NameB}
        /\ last.op = "save_source_string" => fault = "SourceUnavailable"
        /\ JustSealed =>
              (fault = "Unclassified" /\ WroteNothing /\ intern_modules = <<NameA>>
                  /\ extern_modules = <<>>)

(***************************************************************************)
(* C19. Mock outputs: in every successful first finalize the stub source   *)
(* is written at _mock.py exactly once if the mocked table is non-empty    *)
(* and not at all if it is empty; every mocked name gets exactly one       *)
(* redirection record, after the stub, at the package or module path of    *)
(* the real module; no mocked name is externed and none gets its real      *)
(* source written.                                                         *)
(***************************************************************************)
RecordsAt(path) == {i \in 1..Len(records) : records[i].path = path}

RealPath(n) ==
    IF ImporterModules[n].is_package THEN n \o <<"__init__.py">>
    ELSE SubSeq(n, 1, Len(n) - 1) \o <<n[Len(n)] \o ".py">>

OtherPath(n) ==
    IF ImporterModules[n].is_package
    THEN SubSeq(n, 1, Len(n) - 1) \o <<n[Len(n)] \o ".py">>
    ELSE n \o <<"__init__.py">>

C19_MockOutputs ==
    (JustSealed /\ fault = "none") =>
        /\ Cardinality(RecordsAt(<<"_mock.py">>)) = IF mock_modules = <<>> THEN 0 ELSE 1
        /\ \A i \in RecordsAt(<<"_mock.py">>) : records[i].data = MockStub
        /\ \A n \in Range(mock_modules) :
              /\ Cardinality(RecordsAt(RealPath(n))) = 1
              /\ RecordsAt(OtherPath(n)) = {}
              /\ \A i \in RecordsAt(RealPath(n)) :
                    /\ records[i].data = _MOCK_IMPL
                    /\ \A j \in RecordsAt(<<"_mock.py">>) : j < i
              /\ ~InTable(extern_modules, n)
              /\ ~InTable(intern_modules, n)

C19_Witness ==
    /\ JustSealed /\ fault = "none"
    /\ \E n \in Range(mock_modules) : ImporterModules[n].is_package
    /\ \E n \in Range(mock_modules) : ~ImporterModules[n].is_package
    /\ extern_modules # <<>>

(***************************************************************************)
(* C20. Storage de-duplication: a successful first finalize writes exactly *)
(* one record .data/<key>.storage per distinct storage key the             *)
(* persistent-id hook saw, however many pickled objects or save_pickle     *)
(* calls referenced the storage, in ascending order of the keys (as        *)
(* strings), and no storage record is written before finalize.             *)
(***************************************************************************)
StorageKeyOf(o) == KeyText(Str(cdata[o]))

\* the storages of the objects passed to the save_pickle calls made so far
PickledStorages ==
    {o \in StorageObjects :
        \E c \in PickleCalls :
            /\ [op |-> "save_pickle", name |-> PickleKey(c.package, c.resource)] \in entered
            /\ o \in Range(c.obj.storages)}

C20_StorageDedup ==
    /\ (JustSealed /\ fault = "none") =>
          /\ \A o \in PickledStorages :
                Cardinality(RecordsAt(<<".data", StorageKeyOf(o) \o ".storage">>)) = 1
          /\ Len(StorageNames) = Cardinality(PickledStorages)
          /\ \A i, j \in 1..Len(StorageNames) :
                i < j => \E o1, o2 \in PickledStorages :
                            /\ StorageNames[i] = <<".data", StorageKeyOf(o1) \o ".storage">>
                            /\ StorageNames[j] = <<".data", StorageKeyOf(o2) \o ".storage">>
                            /\ StrLess(Str(cdata[o1]), Str(cdata[o2]))
    /\ seals = 0 => Len(StorageNames) = 0

C20_Witness ==
    /\ JustSealed /\ fault = "none"
    /\ Len(StorageNames) = 3
    /\ cdata["s1"] > cdata["s2"]
    /\ StorageNames[1] = <<".data", StorageKeyOf("s1") \o ".storage">>

(***************************************************************************)
(* C21. Raw resources stay outside the graph: a save_text or save_binary   *)
(* call that returns has appended exactly one record, at the package path  *)
(* followed by the normalised resource name and holding the data given; a  *)
(* call that raises has written nothing; in the open phase the call        *)
(* returns when the package is not mangled, the resource is a bare file    *)
(* name and the path is new; in every case the dependency graph, the       *)
(* pattern table, the matched set, the disposition tables and the storage  *)
(* table are unchanged.                                                    *)
(***************************************************************************)
RawOps == {"save_text", "save_binary"}

ResourcePath(package, resource) == package \o <<resource[Len(resource)]>>

C21_RawResources ==
    [][(calls' = calls + 1 /\ last'.op \in RawOps) =>
          /\ UNCHANGED <<dependency_graph, patterns, matched_patterns, intern_modules,
                         extern_modules, mock_modules, serialized_storages>>
          /\ fault' = "none" =>
                /\ Len(records') = Len(records) + 1
                /\ SubSeq(records', 1, Len(records)) = records
                /\ records'[Len(records')].path =
                      ResourcePath(last'.args.package, last'.args.resource)
                /\ records'[Len(records')].data =
                      (IF last'.op = "save_text" THEN "text" ELSE "bytes")
          /\ fault' # "none" => records' = records
          /\ (/\ phase = "open"
              /\ ~is_mangled(last'.args.package)
              /\ Len(last'.args.resource) = 1
              /\ RecordsAt(ResourcePath(last'.args.package, last'.args.resource)) = {})
                => fault' = "none"]_vars

C21_Witness ==
    /\ last.op \in RawOps /\ fault = "none"
    /\ Len(records) = last.recs + 1 /\ last.recs > 0
    /\ dependency_graph.nodes # <<>>

(***************************************************************************)
(* C22. Interned emission: in every successful first finalize each         *)
(* interned node that is not a pickle key has exactly one source record,   *)
(* at name/__init__.py if it is a package and name.py otherwise, holding   *)
(* the user's text under the user's is_package flag when the node carries  *)
(* one and the importer's text otherwise; and at any finalize every        *)
(* interned non-pickle node has one of the two sources, so the intern loop *)
(* never fails to fetch a source.                                          *)
(***************************************************************************)
ModulePath(n, is_package) ==
    IF is_package THEN n \o <<"__init__.py">>
    ELSE SubSeq(n, 1, Len(n) - 1) \o <<n[Len(n)] \o ".py">>

InternedSources == {n \in Range(intern_modules) : n \notin PickleKeys}

HasUserText(n) == NodeAttrs(dependency_graph, n).src # <<>>

HasImporterText(n) == n \in DOMAIN ImporterModules /\ ImporterModules[n].file

ExpectedSource(n) ==
    IF HasUserText(n)
    THEN [path |-> ModulePath(n, NodeAttrs(dependency_graph, n).is_package[1]),
          data |-> NodeAttrs(dependency_graph, n).src[1]]
    ELSE [path |-> ModulePath(n, ImporterModules[n].is_package),
          data |-> ImporterModules[n].src]

C22_InternedEmission ==
    /\ (JustSealed /\ fault = "none") =>
          \A n \in InternedSources :
              /\ Cardinality(RecordsAt(ModulePath(n, TRUE)) \cup RecordsAt(ModulePath(n, FALSE)))
                    = 1
              /\ \E i \in RecordsAt(ExpectedSource(n).path) :
                    records[i] = ExpectedSource(n) /\ i > last.recs
    /\ JustSealed =>
          /\ \A n \in InternedSources : HasUserText(n) \/ HasImporterText(n)
          /\ fault \in {"NotFound", "NotFoundMangled", "SourceUnavailable"} =>
                \E n \in Range(mock_modules) : _import_module(n) # "none"

C22_Witness ==
    /\ JustSealed /\ fault = "none"
    /\ PickleKeys \cap Range(intern_modules) # {}
    /\ \E n \in InternedSources : HasUserText(n) /\ HasImporterText(n)
    /\ \E n \in InternedSources : ~HasUserText(n) /\ ImporterModules[n].is_package

(***************************************************************************)
(* C23. Reachability: in every reachable state, also after an enqueue      *)
(* failed part-way and the caller continued, every node of the dependency  *)
(* graph is reachable along dependency edges from a node the user entered  *)
(* directly (a save_source_string or save_module name, or a pickle key).   *)
(***************************************************************************)
RECURSIVE ReachableFrom(_)
ReachableFrom(S) ==
    LET T == S \cup {e[2] : e \in {x \in dependency_graph.edges : x[1] \in S}} IN
    IF T = S THEN S ELSE ReachableFrom(T)

UserRoots == UserSaved \cup PickleKeys

C23_Reachability == Nodes \subseteq ReachableFrom(UserRoots)

\* the same statement for the runs in which every enqueue returned
C23_ReachabilityOfReturned == ~enq_failed => Nodes \subseteq ReachableFrom(UserRoots)

C23_ReturnedWitness ==
    /\ ~enq_failed
    /\ UserSaved # {} /\ PickleKeys # {}
    /\ \E n \in Nodes \ UserRoots : \A r \in UserRoots : <<r, n>> \notin dependency_graph.edges

(***************************************************************************)
(* C24. Record order: during the open phase a call leaves the records as   *)
(* they are or appends one record, and only save_pickle, save_text and     *)
(* save_binary append, at the path of their resource; a successful first   *)
(* finalize appends, in this order, the _mock stub if a module is mocked,  *)
(* the mock redirections in the order of mock_modules, the interned        *)
(* sources in the order of intern_modules, the .data/extern_modules        *)
(* manifest and one record per storage key, and closes the writer in the   *)
(* step that wrote the last of them.                                       *)
(***************************************************************************)
PathsOf(rs) == [i \in 1..Len(rs) |-> rs[i].path]

StubPaths(mock) == IF mock = <<>> THEN <<>> ELSE << <<"_mock.py">> >>

MockPaths(mock) == [i \in 1..Len(mock) |-> RealPath(mock[i])]

InternPaths(intern) ==
    LET ns == SelectSeq(intern, LAMBDA n : n \notin PickleKeys)
    IN  [i \in 1..Len(ns) |-> ExpectedSource(ns[i]).path]

EmittedHead(mock, intern) ==
    StubPaths(mock) \o MockPaths(mock) \o InternPaths(intern) \o <<ExternManifestPath>>

C24_RecordOrder ==
    [][/\ calls' = calls + 1 =>
             \/ records' = records
             \/ /\ last'.op \in {"save_pickle", "save_text", "save_binary"}
                /\ records' = Append(records, records'[Len(records')])
                /\ records'[Len(records')].path =
                      ResourcePath(last'.args.package, last'.args.resource)
       /\ (seals = 0 /\ seals' = 1 /\ fault' = "none") =>
             LET head == EmittedHead(mock_modules', intern_modules')
                 n == Len(records) + Len(head)
             IN  /\ Len(records') = n + Cardinality(Range(serialized_storages))
                 /\ SubSeq(records', 1, Len(records)) = records
                 /\ SubSeq(PathsOf(records'), Len(records) + 1, n) = head
                 /\ \A i \in (n + 1)..Len(records') : IsStorageRecord(records'[i])
                 /\ zip_open /\ ~zip_open']_vars

C24_Witness ==
    /\ JustSealed /\ fault = "none"
    /\ last.recs > 0
    /\ mock_modules # <<>>
    /\ InternedSources # {}
    /\ serialized_storages # <<>>

(***************************************************************************)
(* C25. EmptyMatch only for rules that match nothing: when a finalize      *)
(* raises EmptyMatch, some rule with allow_empty = FALSE has a matcher     *)
(* that accepts no node of the graph; a rule whose matcher accepts a node  *)
(* is never the cause, whatever rules stand before it and whatever the     *)
(* root of the accepted module.                                            *)
(***************************************************************************)
AcceptsSomeNode(i) == \E n \in Nodes : i \in Accepting(patterns, n)

C25_EmptyMatchOnlyForNoMatch ==
    (JustSealed /\ fault = "EmptyMatch") =>
        \E i \in 1..Len(patterns) : ~patterns[i].allow_empty /\ ~AcceptsSomeNode(i)

\* what the code does: the fault is raised exactly for a rule that fired for no
\* node, a rule fires only as the first accepting rule of a node that is not
\* implicitly externed
C25_EmptyMatchForUnfired ==
    (JustSealed /\ fault = "EmptyMatch") =>
        \E i \in 1..Len(patterns) :
            /\ ~patterns[i].allow_empty
            /\ patterns[i].glob \notin FiredMatchers(ByTable)

C25_ShadowedWitness ==
    /\ JustSealed /\ fault = "EmptyMatch"
    /\ \A i \in 1..Len(patterns) : ~patterns[i].allow_empty => AcceptsSomeNode(i)
    /\ \A n \in Nodes : ~ImplicitlyExterned(n)

C25_ImplicitExternWitness ==
    /\ JustSealed /\ fault = "EmptyMatch"
    /\ \A i \in 1..Len(patterns) : ~patterns[i].allow_empty => AcceptsSomeNode(i)
    /\ Len(patterns) = 1

(***************************************************************************)
(* C26. Order of sealing faults: the first finalize raises DeniedModule if *)
(* the first accepting rule of any table-classified node is a deny rule,   *)
(* also when a node earlier in graph order is unclassified; otherwise the  *)
(* unclassified fault if a node is unclassified; otherwise EmptyMatch if a *)
(* rule with allow_empty = FALSE fired for no node; a fault of the         *)
(* emission (source unavailable, invalid name, ...) only when none of the  *)
(* three applies, and the three are raised before any record is written.   *)
(***************************************************************************)
UnfiredRules ==
    {i \in 1..Len(patterns) :
        ~patterns[i].allow_empty /\ patterns[i].glob \notin FiredMatchers(ByTable)}

ClassificationFaults == {"DeniedModule", "Unclassified", "EmptyMatch"}

C26_FaultOrder ==
    JustSealed =>
        /\ DeniedNodes # {} => fault = "DeniedModule"
        /\ (DeniedNodes = {} /\ UnclassifiedNodes # {}) => fault = "Unclassified"
        /\ (DeniedNodes = {} /\ UnclassifiedNodes = {} /\ UnfiredRules # {}) =>
              fault = "EmptyMatch"
        /\ (DeniedNodes = {} /\ UnclassifiedNodes = {} /\ UnfiredRules = {}) =>
              fault \notin ClassificationFaults
        /\ fault \in ClassificationFaults => WroteNothing

C26_Witness ==
    /\ JustSealed /\ fault = "DeniedModule"
    /\ UnfiredRules # {}
    /\ \E i \in 1..(FirstDenied - 1) : dependency_graph.nodes[i] \in UnclassifiedNodes

\* an emission fault is reached once the three checks have passed
C26_EmissionWitness ==
    /\ JustSealed /\ fault \in {"SourceUnavailable", "InvalidName", "NotFound"}
    /\ patterns # <<>> /\ Len(dependency_graph.nodes) > 1

(***************************************************************************)
(* C27. SourceUnavailable limited to interned modules: when an enqueue     *)
(* raises SourceUnavailable for a module, that module is not a pickle key  *)
(* and the pattern table classifies it as interned; a module a user rule   *)
(* classifies as extern or mock never causes it.  (A finalize never raises *)
(* it: C22.)                                                               *)
(***************************************************************************)
EnqueueOps == {"save_source_string", "save_module", "save_pickle"}

\* the module whose source was asked for last
FaultModule == last.visits[Len(last.visits)]

SourceFaultAtEnqueue ==
    last.op \in EnqueueOps /\ fault = "SourceUnavailable" /\ last.visits # <<>>

C27_SourceUnavailableInterned ==
    SourceFaultAtEnqueue =>
        /\ FaultModule \notin PickleKeys
        /\ ~ImplicitlyExterned(FaultModule)
        /\ Disposition(patterns, FaultModule) = "intern"

\* what the code guarantees: the module is no pickle key, is not implicitly
\* externed and has no source file at the importer
C27_SourceFaultCause ==
    /\ SourceFaultAtEnqueue =>
          /\ FaultModule \notin PickleKeys
          /\ ~ImplicitlyExterned(FaultModule)
          /\ ~HasImporterText(FaultModule)
          /\ FaultModule \notin Nodes \/ HasUserText(FaultModule)
    /\ (fault = "SourceUnavailable" /\ last.visits = <<>>) => last.op \notin EnqueueOps

\* a module the user's mock rule classifies raises SourceUnavailable
C27_MockedWitness ==
    /\ SourceFaultAtEnqueue
    /\ Disposition(patterns, FaultModule) = "mock"
    /\ FaultModule # last.name

(***************************************************************************)
(* _get_dependencies on its own: the scanner's list is any list of at most *)
(* MaxPairs pairs (dep_name, trailing symbol or none), the exporter is as  *)
(* constructed, and the one step runs the adapter's loop on the list.      *)
(***************************************************************************)
ScannerNames == {NameLib, NameOs, NameGhost, NameC}

ScannerSymbols == {<<>>, <<"x">>, <<"f">>}

ScannerPairs == {<<n, o>> : n \in ScannerNames, o \in ScannerSymbols}

ScannerLists == UNION {[1..k -> ScannerPairs] : k \in 0..MaxPairs}

InitAdapter ==
    /\ zip_open = TRUE
    /\ buffer_flushed = FALSE
    /\ records = <<>>
    /\ serialized_storages = <<>>
    /\ intern_modules = <<>>
    /\ extern_modules = <<>>
    /\ mock_modules = <<>>
    /\ dependency_graph = EmptyGraph
    /\ patterns = <<>>
    /\ matched_patterns = {}
    /\ fault = "none"
    /\ last = [op |-> "__init__", name |-> <<>>, recs |-> 0, args |-> <<>>,
               visits |-> <<>>]
    /\ calls = 0
    /\ late = 0
    /\ seals = 0
    /\ exited = FALSE
    /\ phase = "open"
    /\ entered = {}
    /\ scanned = {}
    /\ enq_failed = FALSE
    /\ cdata \in CdataMaps
    /\ scan_pairs \in ScannerLists
    /\ scan_deps = <<>>

\* the loop of _get_dependencies over dep_pairs and its return
GetDependencies ==
    /\ scan_deps = <<>>
    /\ scan_deps' = <<DepsOfPairs(scan_pairs, <<>>)>>
    /\ UNCHANGED <<zip_open, buffer_flushed, records, serialized_storages, intern_modules,
                   extern_modules, mock_modules, dependency_graph, patterns,
                   matched_patterns, fault, last, calls, late, seals, exited, phase,
                   entered, scanned, enq_failed, cdata, scan_pairs>>

NextAdapter == GetDependencies

SpecAdapter == InitAdapter /\ [][NextAdapter]_vars

(***************************************************************************)
(* C28. Source scanner adapter: for every list of pairs the scanner        *)
(* returns, the adapter records for each pair exactly one dependency,      *)
(* dep_name.trailing_symbol when a trailing symbol is present and that     *)
(* name resolves as a module at the importer, and dep_name alone           *)
(* otherwise; the result has no duplicates and keeps first-occurrence      *)
(* order.                                                                  *)
(***************************************************************************)
Resolves(n) == n \in DOMAIN ImporterModules

DependencyOfPair(p) ==
    IF p[2] # <<>> /\ Resolves(p[1] \o p[2]) THEN p[1] \o p[2] ELSE p[1]

RECURSIVE FirstOccurrences(_)
FirstOccurrences(s) ==
    IF s = <<>> THEN <<>>
    ELSE LET front == FirstOccurrences(SubSeq(s, 1, Len(s) - 1)) IN
         IF s[Len(s)] \in Range(front) THEN front ELSE Append(front, s[Len(s)])

PairDependencies == [i \in 1..Len(scan_pairs) |-> DependencyOfPair(scan_pairs[i])]

GlobalsOf(obj) == {obj.globals[i][1] : i \in 1..Len(obj.globals)}

\* the first module in the stream that is neither a node nor implicitly externed
FirstToEnqueue(obj, g) ==
    LET need == {i \in 1..Len(obj.globals) :
                    /\ obj.globals[i][1] \notin Range(g.nodes)
                    /\ ~ImplicitlyExterned(obj.globals[i][1])}
    IN  IF need = {} THEN <<>>
        ELSE <<obj.globals[CHOOSE i \in need : \A j \in need : i <= j][1]>>

C29_SavePickleSteps ==
    [][(calls' = calls + 1 /\ last'.op = "save_pickle") =>
          LET a == last'.args
              key == last'.name
              g == dependency_graph'
              payload == [path |-> ResourcePath(a.package, a.resource),
                          data |-> PickleBytes(a.obj)]
          IN  /\ key = PickleKey(a.package, a.resource)
              /\ key \in Range(g.nodes) /\ NodeAttrs(g, key).is_pickle = <<TRUE>>
              /\ patterns' = Append(patterns, Rule(GlobGroup({key}, {}), "intern", TRUE))
              /\ {e \in g.edges \ dependency_graph.edges : e[1] = key}
                    \subseteq {<<key, m>> : m \in GlobalsOf(a.obj)}
              /\ a.dependencies =>
                    /\ (IF last'.visits = <<>> THEN <<>> ELSE <<last'.visits[1]>>) =
                          FirstToEnqueue(a.obj, add_node(dependency_graph, key, NoAttrs))
                    /\ fault' \in {"none", "InvalidName", "DuplicateRecord", "AttributeError"} =>
                          \A m \in GlobalsOf(a.obj) : <<key, m>> \in g.edges
              /\ ~a.dependencies => g.edges = dependency_graph.edges /\ last'.visits = <<>>
              /\ fault' = "none" => records' = Append(records, payload)
              /\ fault' # "none" => records' = records
              /\ (\E m \in GlobalsOf(a.obj) : a.dependencies /\ <<key, m>> \notin g.edges) =>
                    /\ fault' \in {"NotFound", "NotFoundMangled", "SourceUnavailable"}
                    /\ records' = records]_vars

C29_Witness ==
    /\ last.op = "save_pickle" /\ fault = "SourceUnavailable"
    /\ <<last.name, NameLibX>> \in dependency_graph.edges
    /\ <<last.name, NameSys>> \notin dependency_graph.edges
    /\ Len(records) = last.recs /\ last.recs > 0

\* a save_pickle that returned: every edge is there and the payload is the last record
C29_ReturnedWitness ==
    /\ last.op = "save_pickle" /\ fault = "none"
    /\ Len(last.args.obj.globals) = 3
    /\ Cardinality({e \in dependency_graph.edges : e[1] = last.name}) = 2
    /\ records[Len(records)].path = <<"pkg", "t">>

(***************************************************************************)
(* C30. Failed enqueue leaves no trace: when save_source_string,           *)
(* save_module or save_pickle raises during the open phase, the dependency *)
(* graph, the pattern table, the storage table and the records are as      *)
(* they were before the call.                                              *)
(***************************************************************************)
FailedEnqueueStep ==
    calls' = calls + 1 /\ last'.op \in EnqueueOps /\ phase = "open" /\ fault' # "none"

C30_FailedEnqueueNoTrace ==
    [][FailedEnqueueStep =>
          UNCHANGED <<dependency_graph, patterns, serialized_storages, records>>]_vars

\* what a failed enqueue leaves as it was: the records, the disposition tables
\* and the writer
C30_FailedEnqueueKeeps ==
    [][FailedEnqueueStep =>
          UNCHANGED <<records, intern_modules, extern_modules, mock_modules,
                      matched_patterns, zip_open>>]_vars

\* a failed save_pickle after which its node, its rule and its storage stay
C30_TraceWitness ==
    /\ last.op = "save_pickle" /\ fault = "SourceUnavailable" /\ calls = 1
    /\ Len(dependency_graph.nodes) = 2
    /\ Len(patterns) = 1
    /\ Len(serialized_storages) = 1
    /\ records = <<>>

(***************************************************************************)
(* C31. Repeated save then seal: a name saved with save_source_string or   *)
(* save_module two or more times stands in the pattern table with as many  *)
(* equal implicit intern rules as it was saved; the outcome of the first   *)
(* finalize does not depend on their number.  EmptyMatch is raised exactly *)
(* when some matcher with allow_empty = FALSE fired for no node, never on  *)
(* account of a copy standing behind the copy that fired; a successful     *)
(* finalize interns the name and writes exactly one source record for it;  *)
(* and when the repeated save is all the run did and the name is the only  *)
(* node the table classifies, finalize (not one that follows an aborted   *)
(* resource scope) succeeds with that record and the manifest.             *)
(***************************************************************************)
ImplicitRule(n) == Rule(GlobGroup({n}, {}), "intern", FALSE)

Copies(n) == {i \in 1..Len(patterns) : patterns[i] = ImplicitRule(n)}

SavedNames ==
    {e.name : e \in {x \in entered : x.op \in {"save_source_string", "save_module"}}}

\* the run made calls saves of n, all of which returned, and nothing else
OnlyRepeats(n) ==
    /\ patterns = [i \in 1..calls |-> ImplicitRule(n)]
    /\ ~enq_failed
    /\ last.recs = 0

\* close() was called after the resource scope had been left with an exception
ScopeAborted == exited /\ last.op = "close"

SourceRecordsOf(n) == RecordsAt(ModulePath(n, TRUE)) \cup RecordsAt(ModulePath(n, FALSE))

C31_RepeatedSaveThenSeal ==
    JustSealed =>
        \A n \in SavedNames :
            /\ Copies(n) # {}
            /\ (DeniedNodes = {} /\ UnclassifiedNodes = {}) =>
                  ((fault = "EmptyMatch") <=> (UnfiredRules # {}))
            /\ (fault = "EmptyMatch" /\ n \in ByTable) =>
                  \E i \in UnfiredRules : patterns[i] # ImplicitRule(n)
            /\ fault = "none" =>
                  /\ InTable(intern_modules, n)
                  /\ Cardinality(SourceRecordsOf(n)) = 1
            /\ (OnlyRepeats(n) /\ ByTable = {n} /\ ~is_mangled(n) /\ ~ScopeAborted) =>
                  /\ fault = "none"
                  /\ intern_modules = <<n>>
                  /\ Len(records) = 2

C31_Witness ==
    /\ JustSealed /\ fault = "none"
    /\ \E n \in SavedNames :
          /\ OnlyRepeats(n)
          /\ Cardinality(Copies(n)) = MaxCalls
          /\ Cardinality(SourceRecordsOf(n)) = 1

\* the same for save_module, and for a repeated save next to a user rule
C31_ModuleWitness ==
    /\ JustSealed /\ fault = "none"
    /\ entered = {[op |-> "save_module", name |-> NameC]}
    /\ Cardinality(Copies(NameC)) >= 2

C31_RuleWitness ==
    /\ JustSealed /\ fault = "none"
    /\ \E n \in SavedNames : Cardinality(Copies(n)) = 2
    /\ Len(patterns) = 3
    /\ Len(dependency_graph.nodes) >= 3

(***************************************************************************)
(* C32. User source wins, last writer wins: a save_source_string call      *)
(* leaves its text and is_package flag on the node of its name, whether it *)
(* returns or raises; no other call (save_module or dependency discovery   *)
(* of the same name, before or after, included) changes the text or flag   *)
(* of a node that has them; no call removes a node or an edge; and a       *)
(* successful first finalize writes for every node with a user text that   *)
(* text at the path of that flag as its one source record, never the       *)
(* importer's.                                                             *)
(***************************************************************************)
UserTextNodes(g) == {n \in Range(g.nodes) : NodeAttrs(g, n).src # <<>>}

C32_UserSourceWins ==
    [][/\ (calls' = calls + 1 /\ last'.op = "save_source_string") =>
             /\ last'.name \in Range(dependency_graph'.nodes)
             /\ NodeAttrs(dependency_graph', last'.name).src = <<last'.args.src>>
             /\ NodeAttrs(dependency_graph', last'.name).is_package =
                   <<last'.args.is_package>>
       /\ \A n \in UserTextNodes(dependency_graph) :
             (calls' = calls + 1 /\ last'.op = "save_source_string" /\ last'.name = n)
             \/ /\ n \in Range(dependency_graph'.nodes)
                /\ NodeAttrs(dependency_graph', n).src = NodeAttrs(dependency_graph, n).src
                /\ NodeAttrs(dependency_graph', n).is_package =
                      NodeAttrs(dependency_graph, n).is_package
       /\ SubSeq(dependency_graph'.nodes, 1, Len(dependency_graph.nodes)) =
             dependency_graph.nodes
       /\ dependency_graph.edges \subseteq dependency_graph'.edges
       /\ (seals = 0 /\ seals' = 1 /\ fault' = "none") =>
             \A n \in UserTextNodes(dependency_graph) :
                 LET attrs == NodeAttrs(dependency_graph, n)
                     at == {i \in 1..Len(records') :
                               records'[i].path \in {ModulePath(n, TRUE), ModulePath(n, FALSE)}}
                 IN  /\ Cardinality(at) = 1
                     /\ \A i \in at :
                           /\ i > Len(records)
                           /\ records'[i] = [path |-> ModulePath(n, attrs.is_package[1]),
                                             data |-> attrs.src[1]]]_vars

\* a sealed package whose text for a is the second one given, with the edge the
\* first text gave
C32_Witness ==
    /\ JustSealed /\ fault = "none"
    /\ NameA \in Nodes
    /\ NodeAttrs(dependency_graph, NameA).src = <<SrcPlain>>
    /\ <<NameA, NameC>> \in dependency_graph.edges
    /\ \E i \in 1..Len(records) : records[i] = [path |-> <<"a.py">>, data |-> SrcPlain]

\* save_module and save_source_string for the same name, the importer's text
\* differing from the user's
C32_ModuleWitness ==
    /\ JustSealed /\ fault = "none"
    /\ {[op |-> "save_module", name |-> NameC], [op |-> "save_source_string", name |-> NameC]}
          \subseteq entered
    /\ \E i \in 1..Len(records) : records[i] = [path |-> <<"c.py">>, data |-> SrcPlain]
    /\ ImporterModules[NameC].src # SrcPlain

====
